---- MODULE Spec2Model ----
(***************************************************************************)
(* A model of topologic-vibe: the session object store (session.py), the   *)
(* tool catalogue the agent calls (tools.py), the naming helper            *)
(* (common.py) and the Streamlit script that drives a chat turn (app.py).  *)
(*                                                                         *)
(* Text.  A Python str is modelled as a sequence of tokens: every token    *)
(* stands for a fixed, non-empty piece of text without a line break,       *)
(* except the token NL, which is the line break itself.  An f-string is    *)
(* the concatenation (\o) of its pieces, "\n".join is Join, and the lines  *)
(* of a text are what SplitLines yields.                                   *)
(*                                                                         *)
(* Optional values.  None is <<>> and a present value v is <<v>>.          *)
(*                                                                         *)
(* Lists.  A Python list is an object on the heap: heap maps a list        *)
(* identity to the list's content and a variable holding a list holds its  *)
(* identity.  A list no variable refers to is garbage and its slot is      *)
(* reused.                                                                 *)
(***************************************************************************)
EXTENDS Integers, Sequences, FiniteSets, TLC

VARIABLES
    items,                \* session.items: insertion-ordered dict, a sequence of [name, obj]
    messages,             \* session.messages: identity of the list it is bound to
    heap,                 \* list identity -> content (sequence of {role, content} turns)
    snap,                 \* a list a caller obtained from get_messages (None or <<id>>)
    call,                 \* the last call made on the session or tool catalogue and its result
    pc,                   \* who drives the session and where it is: "api" (a caller of the
                          \* tools), "log" (a caller of the message list), or the Streamlit
                          \* script: "load", "idle", "stream", "rerun"
    ui,                   \* st.session_state.messages (None while the key is absent, else <<id>>)
    messages_for_agent,   \* app.py's local of that name during a user turn (None or <<id>>)
    last_assistant_text   \* app.py's local of that name during a user turn

vars == <<items, messages, heap, snap, call, pc, ui, messages_for_agent, last_assistant_text>>

appVars == <<pc, ui, messages_for_agent, last_assistant_text>>

----------------------------------------------------------------------------
(* Bounds of the model *)

\* most entries session.items holds
MaxItems == 1

\* most turns session.messages holds
MaxMsgs == 1

\* most points a points argument holds
MaxPoints == 3

\* most turns session.messages and a list taken from it hold under the "log" caller
MaxLog == 2

\* most turns the chat holds when a user turn starts
MaxChat == 3

----------------------------------------------------------------------------
(* Text *)

NL == "\n"

None == <<>>

Some(v) == <<v>>

RECURSIVE Join(_, _)
\* sep.join(parts)
Join(sep, parts) ==
    IF parts = <<>> THEN <<>>
    ELSE IF Len(parts) = 1 THEN parts[1]
    ELSE parts[1] \o sep \o Join(sep, Tail(parts))

HasNL(s) == \E i \in 1..Len(s) : s[i] = NL

RECURSIVE SplitLines(_)
\* the lines of a text, as s.split("\n") gives them
SplitLines(s) ==
    IF ~HasNL(s) THEN <<s>>
    ELSE LET i == CHOOSE k \in 1..Len(s) : s[k] = NL /\ \A j \in 1..(k-1) : s[j] # NL
         IN  <<SubSeq(s, 1, i - 1)>> \o SplitLines(SubSeq(s, i + 1, Len(s)))

----------------------------------------------------------------------------
(* Inputs *)

\* names a caller passes explicitly: a plain one and one with a line break in it
ExplicitNames == { <<"c1">>, <<"a", NL, "- ", "c1">> }

\* the values uuid.uuid4() may return, rendered by str(); nothing in tools.py
\* compares a fresh value with the names in use, so a value may come again
UUIDs == { <<"6f1c">>, <<"9b2e">> }

\* uuid.uuid4() is called only when no name is given
Draws(name) == IF name = None THEN UUIDs ELSE { None }

NameArgs == {None} \cup { Some(n) : n \in ExplicitNames }

Pt(i) == <<i, (i * i) % 3, 0>>

Origin == <<0, 0, 0>>

Positions == { <<1, 2, 3>> }

\* a points argument: a list of 0..MaxPoints coordinates
PointLists == { [i \in 1..n |-> Pt(i - 1)] : n \in 0..MaxPoints }

OriginArgs == { None }

Sizes == { 1 }

Roles == { "user" }

\* the roles the "log" caller passes: add_message takes any string
AnyRoles == { "user", "assistant", "system" }

Prompts == { <<"build a cube">> }

----------------------------------------------------------------------------
(* The geometry kernel (topologicpy).  Its constructors are opaque: an     *)
(* object is the handle they return, recorded as its Python type, the      *)
(* constructor called with its arguments, and the dictionary attached.     *)

VertexByCoordinates(p) == [type |-> "Vertex", args |-> <<"ByCoordinates", p>>, dict |-> None]

EdgeByVertices(a, b) == [type |-> "Edge", args |-> <<"ByVertices", a.args[2], b.args[2]>>, dict |-> None]

WireByVertices(vs, close) ==
    [type |-> "Wire", args |-> <<"ByVertices", [i \in 1..Len(vs) |-> vs[i].args[2]], close>>, dict |-> None]

FaceByVertices(vs) ==
    [type |-> "Face", args |-> <<"ByVertices", [i \in 1..Len(vs) |-> vs[i].args[2]]>>, dict |-> None]

FaceRectangle(origin, length, width) ==
    [type |-> "Face", args |-> <<"Rectangle", origin, length, width>>, dict |-> None]

FaceCircle(origin, radius) ==
    [type |-> "Face", args |-> <<"Circle", origin, radius>>, dict |-> None]

CellCube(origin, size) == [type |-> "Cell", args |-> <<"Cube", origin, size>>, dict |-> None]

CellPrism(width, length, height) ==
    [type |-> "Cell", args |-> <<"Prism", width, length, height>>, dict |-> None]

CellCylinder(radius, height) ==
    [type |-> "Cell", args |-> <<"Cylinder", radius, height>>, dict |-> None]

\* common.assign_name: the object with the dictionary {"name": name} set on it
assign_name(obj, name) == [obj EXCEPT !.dict = Some(name)]

\* origin = Vertex.ByCoordinates(*origin) when an origin is given
OriginVertex(origin) ==
    IF origin # None THEN Some(VertexByCoordinates(origin[1])) ELSE None

----------------------------------------------------------------------------
(* session.py: TopologicSession, on the value of self.items *)

Names(its) == { its[i].name : i \in 1..Len(its) }

IndexOf(its, name) == CHOOSE i \in 1..Len(its) : its[i].name = name

\* variant: an entry already present keeps its object, as with dict.setdefault
SetItem_KeepFirst(its, name, obj) ==
    IF name \in Names(its) THEN its ELSE Append(its, [name |-> name, obj |-> obj])

\* self.items[name] = obj on an insertion-ordered dict
SetItem(its, name, obj) ==
    IF name \in Names(its)
    THEN [its EXCEPT ![IndexOf(its, name)] = [name |-> name, obj |-> obj]]
    ELSE Append(its, [name |-> name, obj |-> obj])

\* TopologicSession.add
add(its, name, obj) ==
    [items |-> SetItem(its, name, obj),
     added |-> Some(<<name, obj>>),
     ret   |-> <<"Object '">> \o name \o <<"' saved.">>]

\* TopologicSession.get_all_names
get_all_names(its) == [i \in 1..Len(its) |-> its[i].name]

\* TopologicSession.get: the object, or None
get(its, name) ==
    IF name \in Names(its) THEN Some(its[IndexOf(its, name)].obj) ELSE None

----------------------------------------------------------------------------
(* tools.py: the tool catalogue.  A tool is an operator from the value of  *)
(* session.items and the tool's arguments to the new value of              *)
(* session.items (items), the string the tool returns (ret) and the call   *)
(* to session.add it made, if any (added: None or <<name, obj>>); uuid is  *)
(* the value uuid.uuid4() returns if the tool calls it.  No tool reads or  *)
(* writes session.messages.                                                *)

Created(article, kind, nm) ==
    <<article, kind, " with name ">> \o nm \o <<" has been created and registered">>

create_cylinder(its, radius, height, name, uuid) ==
    LET nm  == IF name = None THEN <<"cylinder", " ">> \o uuid ELSE name[1]
        obj == assign_name(CellCylinder(radius, height), nm)
    a   == add(its, nm, obj)
    IN  [items |-> a.items, added |-> a.added, ret |-> Created("A ", "cylinder", nm)]

create_prism(its, width, length, height, name, uuid) ==
    LET nm  == IF name = None THEN <<"prism", " ">> \o uuid ELSE name[1]
        obj == assign_name(CellPrism(width, length, height), nm)
    a   == add(its, nm, obj)
    IN  [items |-> a.items, added |-> a.added, ret |-> Created("A ", "prism", nm)]

create_circle(its, radius, origin, name, uuid) ==
    LET nm  == IF name = None THEN <<"circle", " ">> \o uuid ELSE name[1]
        obj == assign_name(FaceCircle(OriginVertex(origin), radius), nm)
    a   == add(its, nm, obj)
    IN  [items |-> a.items, added |-> a.added, ret |-> Created("A ", "circle", nm)]

create_rectangle(its, length, width, origin, name, uuid) ==
    LET nm  == IF name = None THEN <<"rectangle", " ">> \o uuid ELSE name[1]
        obj == assign_name(FaceRectangle(OriginVertex(origin), length, width), nm)
    a   == add(its, nm, obj)
    IN  [items |-> a.items, added |-> a.added, ret |-> Created("A ", "rectangle", nm)]

FaceError == <<"Error: At least three points are required to create a face.">>

\* variant: the guard compares with 2, as create_wire's does
create_face_TwoPoints(its, points, name, uuid) ==
    IF Len(points) < 2 THEN [items |-> its, added |-> None, ret |-> FaceError]
    ELSE
    LET nm  == IF name = None THEN <<"face", " ">> \o uuid ELSE name[1]
        vertices == [i \in 1..Len(points) |-> VertexByCoordinates(points[i])]
        obj == assign_name(FaceByVertices(vertices), nm)
        a   == add(its, nm, obj)
    IN  [items |-> a.items, added |-> a.added, ret |-> Created("A ", "face", nm)]

create_face(its, points, name, uuid) ==
    IF Len(points) < 3 THEN [items |-> its, added |-> None, ret |-> FaceError]
    ELSE
    LET nm  == IF name = None THEN <<"face", " ">> \o uuid ELSE name[1]
        vertices == [i \in 1..Len(points) |-> VertexByCoordinates(points[i])]
        obj == assign_name(FaceByVertices(vertices), nm)
    a   == add(its, nm, obj)
    IN  [items |-> a.items, added |-> a.added, ret |-> Created("A ", "face", nm)]

WireError == <<"Error: At least two points are required to create a wire.">>

create_wire(its, points, is_closed, name, uuid) ==
    IF Len(points) < 2 THEN [items |-> its, added |-> None, ret |-> WireError]
    ELSE
    LET nm  == IF name = None THEN <<"wire", " ">> \o uuid ELSE name[1]
        vertices == [i \in 1..Len(points) |-> VertexByCoordinates(points[i])]
        obj == assign_name(WireByVertices(vertices, is_closed), nm)
    a   == add(its, nm, obj)
    IN  [items |-> a.items, added |-> a.added, ret |-> Created("A ", "wire", nm)]

create_vertex(its, position, name, uuid) ==
    LET nm  == IF name = None THEN <<"vertex", " ">> \o uuid ELSE name[1]
        obj == assign_name(VertexByCoordinates(position), nm)
    a   == add(its, nm, obj)
    IN  [items |-> a.items, added |-> a.added, ret |-> Created("A ", "vertex", nm)]

\* variant: the synthesized name carries another tool's shape kind
create_edge_WirePrefix(its, start, end, name, uuid) ==
    LET nm  == IF name = None THEN <<"wire", " ">> \o uuid ELSE name[1]
        obj == assign_name(EdgeByVertices(VertexByCoordinates(start),
                                          VertexByCoordinates(end)), nm)
        a   == add(its, nm, obj)
    IN  [items |-> a.items, added |-> a.added, ret |-> Created("An ", "edge", nm)]

create_edge(its, start, end, name, uuid) ==
    LET nm  == IF name = None THEN <<"edge", " ">> \o uuid ELSE name[1]
        obj == assign_name(EdgeByVertices(VertexByCoordinates(start),
                                          VertexByCoordinates(end)), nm)
    a   == add(its, nm, obj)
    IN  [items |-> a.items, added |-> a.added, ret |-> Created("An ", "edge", nm)]

create_cube(its, size, origin, name, uuid) ==
    LET nm  == IF name = None THEN <<"cube", " ">> \o uuid ELSE name[1]
        obj == assign_name(CellCube(OriginVertex(origin), size), nm)
    a   == add(its, nm, obj)
    IN  [items |-> a.items, added |-> a.added, ret |-> Created("A ", "cube", nm)]

\* str(Vertex.Coordinates(obj)): the three coordinates as Python prints a list of floats
CoordsText(p) ==
    <<"[", ToString(p[1]), ".0, ", ToString(p[2]), ".0, ", ToString(p[3]), ".0]">>

get_object_info(its, name) ==
    LET obj == get(its, name) IN
    IF obj = None
    THEN [items |-> its, added |-> None,
          ret |-> <<"No object found with the name '">> \o name \o <<"'.">>]
    ELSE IF obj[1].type = "Vertex"
    THEN [items |-> its, added |-> None,
          ret |-> <<"Object '">> \o name \o <<"' is a Vertex located at coordinates ">>
                  \o CoordsText(obj[1].args[2]) \o <<".">>]
    ELSE [items |-> its, added |-> None,
          ret |-> <<"Object '">> \o name \o <<"' is of type '", obj[1].type, "'.">>]

SessionEmpty == <<"The session is empty.">>

\* variant: the first name is left out of the list
list_session_items_DropFirst(its) ==
    LET names == get_all_names(its) IN
    IF names = <<>> THEN [items |-> its, added |-> None, ret |-> SessionEmpty]
    ELSE
    LET item_list == Join(<<NL>>, [i \in 1..(Len(names) - 1) |-> <<"- ">> \o names[i + 1]])
    IN  [items |-> its, added |-> None, ret |-> <<"Current session items:", NL>> \o item_list]

list_session_items(its) ==
    LET names == get_all_names(its) IN
    IF names = <<>> THEN [items |-> its, added |-> None, ret |-> SessionEmpty]
    ELSE
    LET item_list == Join(<<NL>>, [i \in 1..Len(names) |-> <<"- ">> \o names[i]])
    IN  [items |-> its, added |-> None, ret |-> <<"Current session items:", NL>> \o item_list]

\* variant: the items are left in place
clear_session_Keep(its) ==
    [items |-> its, added |-> None, ret |-> <<"The session has been deleted">>]

clear_session(its) ==
    [items |-> <<>>, added |-> None, ret |-> <<"The session has been deleted">>]

----------------------------------------------------------------------------
(* session.py: the message list.  h is the heap, m the list session.messages *)
(* is bound to, new a list identity not in use.                              *)

ListIds == 1..4

\* the least list identity no reference in keep holds
NewList(keep) == CHOOSE i \in ListIds \ keep : \A j \in ListIds \ keep : i <= j

\* the heap with every list no reference in refs holds dropped
Collect(h, refs) == [i \in ListIds |-> IF i \in refs THEN h[i] ELSE <<>>]

RefSet(r) == { r[i] : i \in 1..Len(r) }

\* variant: the turn is inserted at the front
add_message_Front(h, m, role, content) ==
    LET entry == [role |-> role, content |-> content]
    IN  [heap |-> [h EXCEPT ![m] = <<entry>> \o @], messages |-> m, ret |-> entry]

\* TopologicSession.add_message
add_message(h, m, role, content) ==
    LET entry == [role |-> role, content |-> content]
    IN  [heap |-> [h EXCEPT ![m] = Append(@, entry)], messages |-> m, ret |-> entry]

\* variant: return self.messages, the list itself
get_messages_Alias(h, m, new) == [heap |-> h, messages |-> m, ret |-> m]

\* TopologicSession.get_messages: list(self.messages), a new list with the same turns
get_messages(h, m, new) ==
    [heap |-> [h EXCEPT ![new] = h[m]], messages |-> m, ret |-> new]

\* TopologicSession.clear_messages: self.messages = []
clear_messages(h, m, new) ==
    [heap |-> [h EXCEPT ![new] = <<>>], messages |-> new, ret |-> TRUE]

----------------------------------------------------------------------------
(* State *)

Kinds == { "vertex", "edge", "wire", "face", "rectangle", "circle", "cube", "prism",
           "cylinder" }

\* every name an entry can have here: the explicit ones and the synthesized ones
AllNames == ExplicitNames \cup { <<k, " ">> \o u : k \in Kinds, u \in UUIDs }

\* the turns of session.messages
Msgs == heap[messages]

\* call: the operation (op), whether it drew a uuid4 to synthesize a name (unnamed),
\* the length of its points argument (points, 0 when it has none), the call of
\* session.add it made (added: None or <<name, obj>>), whether that name was in
\* session.items before (replaced), and what the operation returned (ret)
NoCall ==
    [op |-> "none", unnamed |-> FALSE, points |-> 0, added |-> None, replaced |-> FALSE,
     ret |-> None]

\* TopologicSession.__init__, before any script has run
SessionInit ==
    /\ items = <<>>
    /\ messages = 1
    /\ heap = [i \in ListIds |-> <<>>]
    /\ snap = None
    /\ call = NoCall
    /\ ui = None
    /\ messages_for_agent = None
    /\ last_assistant_text = <<>>

\* the session driven through its tools by a caller
ApiInit == SessionInit /\ pc = "api"

\* the session's message list driven through its methods by a caller
LogInit == SessionInit /\ pc = "log"

\* the session driven by the Streamlit script, about to run for the first time
AppInit == SessionInit /\ pc = "load"

----------------------------------------------------------------------------
(* A call of a tool by a caller of the catalogue.  r is what the tool      *)
(* computes from session.items.                                            *)

ToolStep(op, name, points, r) ==
    /\ pc = "api"
    /\ Len(r.items) <= MaxItems
    /\ items' = r.items
    /\ call' = [op |-> op, unnamed |-> (name = None /\ r.added # None), points |-> points,
                added |-> r.added,
                replaced |-> (r.added # None /\ r.added[1][1] \in Names(items)),
                ret |-> r.ret]
    /\ UNCHANGED <<messages, heap, snap, appVars>>

CreateCylinder ==
    \E radius \in Sizes, height \in Sizes, name \in NameArgs : \E uuid \in Draws(name) :
        ToolStep("create_cylinder", name, 0, create_cylinder(items, radius, height, name, uuid))

CreatePrism ==
    \E width \in Sizes, length \in Sizes, height \in Sizes, name \in NameArgs : \E uuid \in Draws(name) :
        ToolStep("create_prism", name, 0, create_prism(items, width, length, height, name, uuid))

CreateCircle ==
    \E radius \in Sizes, origin \in OriginArgs, name \in NameArgs : \E uuid \in Draws(name) :
        ToolStep("create_circle", name, 0, create_circle(items, radius, origin, name, uuid))

CreateRectangle ==
    \E length \in Sizes, width \in Sizes, origin \in OriginArgs, name \in NameArgs : \E uuid \in Draws(name) :
        ToolStep("create_rectangle", name, 0,
                 create_rectangle(items, length, width, origin, name, uuid))

CreateFace ==
    \E points \in PointLists, name \in NameArgs : \E uuid \in Draws(name) :
        ToolStep("create_face", name, Len(points), create_face(items, points, name, uuid))

CreateWire ==
    \E points \in PointLists, is_closed \in {TRUE}, name \in NameArgs : \E uuid \in Draws(name) :
        ToolStep("create_wire", name, Len(points),
                 create_wire(items, points, is_closed, name, uuid))

CreateVertex ==
    \E position \in Positions, name \in NameArgs : \E uuid \in Draws(name) :
        ToolStep("create_vertex", name, 0, create_vertex(items, position, name, uuid))

CreateEdge ==
    \E start \in {Origin}, end \in Positions, name \in NameArgs : \E uuid \in Draws(name) :
        ToolStep("create_edge", name, 0, create_edge(items, start, end, name, uuid))

CreateCube ==
    \E size \in Sizes, origin \in OriginArgs, name \in NameArgs : \E uuid \in Draws(name) :
        ToolStep("create_cube", name, 0, create_cube(items, size, origin, name, uuid))

GetObjectInfo ==
    \E name \in ExplicitNames \cup Names(items) :
        ToolStep("get_object_info", Some(name), 0, get_object_info(items, name))

ListSessionItems == ToolStep("list_session_items", None, 0, list_session_items(items))

ClearSession == ToolStep("clear_session", None, 0, clear_session(items))

----------------------------------------------------------------------------
(* Calls of the session's message-list methods by a caller that holds the  *)
(* session.  r is what the method computes, newSnap the list the caller    *)
(* holds afterwards.                                                       *)

MessageStep(op, r, newSnap) ==
    /\ pc \in {"api", "log"}
    /\ messages' = r.messages
    /\ snap' = newSnap
    /\ heap' = Collect(r.heap, {r.messages} \cup RefSet(newSnap))
    /\ call' = [NoCall EXCEPT !.op = op, !.ret = r.ret]
    /\ UNCHANGED <<items, appVars>>

AddMessage ==
    /\ pc = "api"
    /\ Len(Msgs) < MaxMsgs
    /\ \E role \in Roles, content \in Prompts :
          MessageStep("add_message", add_message(heap, messages, role, content), snap)

AddTurn ==
    /\ pc = "log"
    /\ Len(Msgs) < MaxLog
    /\ \E role \in AnyRoles, content \in Prompts :
          MessageStep("add_message", add_message(heap, messages, role, content), snap)

GetMessages ==
    /\ pc = "log"
    /\ LET r == get_messages(heap, messages, NewList({messages}))
       IN  MessageStep("get_messages", r, Some(r.ret))

ClearMessages ==
    MessageStep("clear_messages", clear_messages(heap, messages, NewList(RefSet(snap))), snap)

\* the caller appends a turn of its own to the list get_messages gave it
SnapAppend ==
    /\ pc = "log"
    /\ snap # None
    /\ Len(heap[snap[1]]) < MaxLog
    /\ heap' = [heap EXCEPT ![snap[1]] = Append(@, [role |-> "user", content |-> <<"draft">>])]
    /\ call' = [NoCall EXCEPT !.op = "list.append"]
    /\ UNCHANGED <<items, messages, snap, appVars>>

\* the caller removes the last turn from the list get_messages gave it
SnapRemove ==
    /\ pc = "log"
    /\ snap # None
    /\ heap[snap[1]] # <<>>
    /\ heap' = [heap EXCEPT ![snap[1]] = SubSeq(@, 1, Len(@) - 1)]
    /\ call' = [NoCall EXCEPT !.op = "list.pop"]
    /\ UNCHANGED <<items, messages, snap, appVars>>

Next ==
    \/ CreateCylinder
    \/ CreatePrism
    \/ CreateCircle
    \/ CreateRectangle
    \/ CreateFace
    \/ CreateWire
    \/ CreateVertex
    \/ CreateEdge
    \/ CreateCube
    \/ GetObjectInfo
    \/ ListSessionItems
    \/ ClearSession
    \/ AddMessage
    \/ ClearMessages

\* a caller of the tool catalogue
Spec == ApiInit /\ [][Next]_vars

MsgNext ==
    \/ AddTurn
    \/ GetMessages
    \/ ClearMessages
    \/ SnapAppend
    \/ SnapRemove

\* a caller of the message list that keeps what get_messages returned
MsgSpec == LogInit /\ [][MsgNext]_vars

----------------------------------------------------------------------------
(* app.py: the Streamlit script.  One script run is one action, except a   *)
(* user turn, which is the run up to the stream (RunPrompt), one action    *)
(* per update the agent streams, and the rest of the run (StreamEnd).      *)

\* the texts a model update carries; "" is among them
AgentTexts == { <<>>, <<"Done.">> }

\* the tools the agent was created with
ToolNames == { "clear_session", "create_cube", "create_vertex", "create_wire", "create_face",
               "create_rectangle", "create_circle", "create_prism", "create_cylinder",
               "create_edge", "list_session_items", "get_object_info" }

\* the name the agent gives every object it creates here
AgentNames == { Some(<<"c1">>) }

\* f"Using '{content[0]['name']}' tool ..."
Placeholder(tool) == <<"Using '", tool, "' tool ...">>

\* what the tools compute when the agent's tool node calls them on session.items
AgentToolResults ==
    { create_cylinder(items, 1, 1, n, None) : n \in AgentNames }
    \cup { create_prism(items, 1, 1, 1, n, None) : n \in AgentNames }
    \cup { create_circle(items, 1, None, n, None) : n \in AgentNames }
    \cup { create_rectangle(items, 1, 1, None, n, None) : n \in AgentNames }
    \cup { create_face(items, pts, n, None) : pts \in PointLists, n \in AgentNames }
    \cup { create_wire(items, pts, TRUE, n, None) : pts \in PointLists, n \in AgentNames }
    \cup { create_vertex(items, pos, n, None) : pos \in Positions, n \in AgentNames }
    \cup { create_edge(items, Origin, pos, n, None) : pos \in Positions, n \in AgentNames }
    \cup { create_cube(items, 1, None, n, None) : n \in AgentNames }
    \cup { get_object_info(items, n[1]) : n \in AgentNames }
    \cup { list_session_items(items), clear_session(items) }

\* a script run without chat input and without the chat-clear button: the first
\* load, the run st.rerun() asks for, or a run for another widget
Run ==
    /\ pc \in {"load", "idle", "rerun"}
    /\ IF ui = None
       THEN LET r == get_messages(heap, messages, NewList({messages}))
            IN  /\ ui' = Some(r.ret)
                /\ heap' = Collect(r.heap, {messages, r.ret})
       ELSE UNCHANGED <<ui, heap>>
    /\ pc' = "idle"
    /\ UNCHANGED <<items, messages, snap, call, messages_for_agent, last_assistant_text>>

\* the run in which the "Clear chat history" button is pressed
RunClear ==
    /\ pc = "idle"
    /\ LET m == NewList({})
           u == NewList({m})
       IN  /\ messages' = m
           /\ ui' = Some(u)
           /\ heap' = Collect([heap EXCEPT ![m] = <<>>, ![u] = <<>>], {m, u})
    /\ pc' = "rerun"
    /\ UNCHANGED <<items, snap, call, messages_for_agent, last_assistant_text>>

\* the run in which the user sends a prompt, up to the start of the stream
RunPrompt ==
    /\ pc = "idle"
    /\ Len(Msgs) < MaxChat
    /\ \E prompt \in Prompts :
          LET a == add_message(heap, messages, "user", prompt)
              u == get_messages(a.heap, messages, NewList({messages}))
              g == get_messages(u.heap, messages, NewList({messages, u.ret}))
          IN  /\ ui' = Some(u.ret)
              /\ messages_for_agent' = Some(g.ret)
              /\ heap' = Collect(g.heap, {messages, u.ret, g.ret})
    /\ last_assistant_text' = <<>>
    /\ pc' = "stream"
    /\ UNCHANGED <<items, messages, snap, call>>

\* variant: every text piece is stored as an assistant turn when it arrives
StreamModelText_Persist ==
    /\ pc = "stream"
    /\ \E text \in AgentTexts :
          /\ last_assistant_text' = text
          /\ heap' = add_message(heap, messages, "assistant", text).heap
    /\ UNCHANGED <<items, messages, snap, call, pc, ui, messages_for_agent>>

\* a "model" update whose first content block is text
StreamModelText ==
    /\ pc = "stream"
    /\ \E text \in AgentTexts : last_assistant_text' = text
    /\ UNCHANGED <<items, messages, heap, snap, call, pc, ui, messages_for_agent>>

\* a "model" update whose first content block is a tool call
StreamModelToolCall ==
    /\ pc = "stream"
    /\ \E tool \in ToolNames : last_assistant_text' = Placeholder(tool)
    /\ UNCHANGED <<items, messages, heap, snap, call, pc, ui, messages_for_agent>>

\* a "tools" update: the agent's tool node has called a tool on the session
StreamTools ==
    /\ pc = "stream"
    /\ \E r \in AgentToolResults :
          /\ Len(r.items) <= MaxItems
          /\ items' = r.items
    /\ UNCHANGED <<messages, heap, snap, call, appVars>>

\* variant: st.session_state.messages is not refreshed after the assistant turn
StreamEnd_NoRefresh ==
    /\ pc = "stream"
    /\ IF last_assistant_text # <<>>
       THEN LET a == add_message(heap, messages, "assistant", last_assistant_text)
            IN  heap' = Collect(a.heap, {messages} \cup RefSet(ui))
       ELSE heap' = Collect(heap, {messages} \cup RefSet(ui))
    /\ messages_for_agent' = None
    /\ last_assistant_text' = <<>>
    /\ pc' = "rerun"
    /\ UNCHANGED <<items, messages, snap, call, ui>>

\* the stream is exhausted: the rest of the run
StreamEnd ==
    /\ pc = "stream"
    /\ IF last_assistant_text # <<>>
       THEN LET a == add_message(heap, messages, "assistant", last_assistant_text)
                u == get_messages(a.heap, messages, NewList({messages}))
            IN  /\ ui' = Some(u.ret)
                /\ heap' = Collect(u.heap, {messages, u.ret})
       ELSE /\ ui' = ui
            /\ heap' = Collect(heap, {messages} \cup RefSet(ui))
    /\ messages_for_agent' = None
    /\ last_assistant_text' = <<>>
    /\ pc' = "rerun"
    /\ UNCHANGED <<items, messages, snap, call>>

\* the agent or the kernel raises during the stream: the run ends there
StreamFail ==
    /\ pc = "stream"
    /\ heap' = Collect(heap, {messages} \cup RefSet(ui))
    /\ messages_for_agent' = None
    /\ last_assistant_text' = <<>>
    /\ pc' = "idle"
    /\ UNCHANGED <<items, messages, snap, call, ui>>

AppNext ==
    \/ Run
    \/ RunClear
    \/ RunPrompt
    \/ StreamModelText
    \/ StreamModelToolCall
    \/ StreamTools
    \/ StreamEnd
    \/ StreamFail

\* the session driven by the Streamlit script
AppSpec == AppInit /\ [][AppNext]_vars

\* every driver: a caller of the tools, a caller of the message list, the script
AllInit == SessionInit /\ pc \in {"api", "log", "load"}

AllNext == Next \/ MsgNext \/ AppNext

AllSpec == AllInit /\ [][AllNext]_vars

----------------------------------------------------------------------------
(* Properties *)

IsPrefix(a, b) == Len(a) <= Len(b) /\ SubSeq(b, 1, Len(a)) = a

\* C1: create_face with fewer than 3 points returns exactly the face error and
\* create_wire with fewer than 2 points exactly the wire error, whatever the name
\* argument, and both leave session.items and session.messages as they were.
C1_PreconditionErrors ==
    [][ /\ (call'.op = "create_face" /\ call'.points < 3)
            => (call'.ret = FaceError /\ items' = items
                /\ messages' = messages /\ Msgs' = Msgs)
        /\ (call'.op = "create_wire" /\ call'.points < 2)
            => (call'.ret = WireError /\ items' = items
                /\ messages' = messages /\ Msgs' = Msgs) ]_vars

\* create_face was refused for a list of two points, in a session that holds an
\* object and a message
C1_Witness ==
    /\ call.op = "create_face"
    /\ call.points = 2
    /\ call.ret = FaceError
    /\ items # <<>>
    /\ Msgs # <<>>

\* C2: clear_session leaves items empty and messages as they were; clear_messages
\* leaves messages empty and items as they were.
C2_ClearFrames ==
    [][ /\ call'.op = "clear_session"
            => (items' = <<>> /\ messages' = messages /\ Msgs' = Msgs)
        /\ call'.op = "clear_messages"
            => (Msgs' = <<>> /\ items' = items) ]_vars

\* clear_session has acted on a session that holds a message
C2_Witness ==
    /\ call.op = "clear_session"
    /\ items = <<>>
    /\ Msgs # <<>>

Body(text) == Tail(SplitLines(text))

RECURSIVE Concat(_)
Concat(parts) == IF parts = <<>> THEN <<>> ELSE parts[1] \o Concat(Tail(parts))

ToolKind ==
    [t \in { "create_" \o k : k \in Kinds } |->
        CHOOSE k \in Kinds : t = "create_" \o k]

Placeholders == { Placeholder(tool) : tool \in ToolNames }

\* C4: whatever the agent streams, a tool-call placeholder is never stored as the
\* content of a chat turn: the assistant turn appended for a user turn is the
\* final textual response.
C4_NoPlaceholderStored ==
    \A i \in 1..Len(Msgs) : Msgs[i].content \notin Placeholders

\* the step is an explicit clear of the chat: clear_messages, or the script run in
\* which the chat-clear button is pressed
ClearStep ==
    \/ pc \in {"api", "log"} /\ call'.op = "clear_messages"
    \/ pc = "idle" /\ pc' = "rerun"

\* C7: but for an explicit clear, every operation keeps the messages it found as an
\* unchanged prefix of session.messages, and a call of add_message appends exactly
\* the one turn {role, content} at the end: a caller's add_message, the user's
\* prompt when a user turn starts, the assistant's text when the stream has ended.
C7_AppendOnly ==
    [][ /\ ~ClearStep => (messages' = messages /\ IsPrefix(Msgs, Msgs'))
        /\ (pc \in {"api", "log"} /\ call'.op = "add_message")
            => /\ Msgs' = Append(Msgs, call'.ret)
               /\ \E role \in AnyRoles, content \in Prompts :
                     call'.ret = [role |-> role, content |-> content]
        /\ (pc \in {"api", "log"} /\ call'.op \notin {"add_message", "clear_messages"})
            => Msgs' = Msgs
        /\ (pc = "idle" /\ pc' = "stream")
            => \E prompt \in Prompts :
                  Msgs' = Append(Msgs, [role |-> "user", content |-> prompt])
        /\ (pc = "stream" /\ pc' = "rerun")
            => \/ Msgs' = Msgs
               \/ Msgs' = Append(Msgs, [role |-> "assistant",
                                        content |-> last_assistant_text])
        /\ (pc = "stream" /\ pc' # "rerun") => Msgs' = Msgs
        /\ pc \in {"load", "rerun"} => Msgs' = Msgs ]_vars

\* a user turn has appended the prompt and the assistant's text after an earlier turn
C7_Witness ==
    /\ pc = "rerun"
    /\ Len(Msgs) >= 3
    /\ Msgs[Len(Msgs)].role = "assistant"
    /\ items # <<>>

\* C8: the list get_messages returns is a new list with the turns of
\* session.messages: an add_message or a clear_messages on the session leaves a
\* list returned earlier with the turns it had, and appending to or removing from
\* a returned list leaves session.messages, hence what get_messages returns next,
\* as it was.
C8_Snapshot ==
    [][ /\ call'.op = "get_messages"
            => (snap' # None /\ snap'[1] # messages' /\ heap'[snap'[1]] = Msgs
                /\ messages' = messages /\ Msgs' = Msgs)
        /\ (snap # None /\ call'.op \in {"add_message", "clear_messages"})
            => (snap' = snap /\ heap'[snap[1]] = heap[snap[1]])
        /\ call'.op \in {"list.append", "list.pop"}
            => (messages' = messages /\ Msgs' = Msgs
                /\ get_messages(heap', messages', NewList({messages'})).heap[NewList({messages'})]
                     = Msgs) ]_vars

\* add_message has acted on the session after a list was taken from it
C8_Witness ==
    /\ call.op = "add_message"
    /\ snap # None
    /\ Len(heap[snap[1]]) < Len(Msgs)

\* C9: when a script run has ended, st.session_state.messages holds the same turns
\* in the same order as session.messages.
C9_TranscriptInSync ==
    pc \in {"idle", "rerun"} => (ui # None /\ heap[ui[1]] = Msgs)

\* a user turn with an assistant reply has ended
C9_Witness ==
    /\ pc = "rerun"
    /\ Len(Msgs) >= 2
    /\ Msgs[Len(Msgs)].role = "assistant"
    /\ ui # None

\* C10: session.messages is empty or starts with a "user" turn, holds no two
\* adjacent "assistant" turns and no role but "user" and "assistant".
C10_ChatShape ==
    /\ Msgs # <<>> => Msgs[1].role = "user"
    /\ \A i \in 1..(Len(Msgs) - 1) :
          ~(Msgs[i].role = "assistant" /\ Msgs[i + 1].role = "assistant")
    /\ \A i \in 1..Len(Msgs) : Msgs[i].role \in {"user", "assistant"}

\* two user turns with an assistant reply between them
C10_Witness ==
    /\ Len(Msgs) >= 3
    /\ Msgs[1].role = "user"
    /\ Msgs[2].role = "assistant"
    /\ Msgs[3].role = "user"

====
